---- MODULE Spec2Model ----
(***************************************************************************)
(* Model of app.py: the two CSV loaders (load_aec_data, load_pgi_data),    *)
(* the query sanitizer (sanitize_query), the two matchers (search_aec,     *)
(* search_pgi) and the two search routes that chain them.                  *)
(*                                                                         *)
(* A Python str is a sequence of one-character strings; None is the value  *)
(* None below, which is no sequence of characters.                         *)
(***************************************************************************)
EXTENDS Integers, Sequences, FiniteSets, TLC

VARIABLES
    aec_file,     \* aec_data.csv as the loader finds it
    pgi_file,     \* pgi_departments.csv as the loader finds it
    aec_data,     \* the AEC store (module-level list)
    pgi_data,     \* the PGI store (module-level list)
    log,          \* what app.logger received, in order
    pc,           \* "boot", "serving", "responded"
    hospital,     \* which route served the last request: "none", "aec", "pgi"
    raw,          \* the last request's search_query parameter
    q,            \* sanitize_query(raw)
    results,      \* the records the matcher returned
    suggestion,   \* the suggestion the matcher returned
    trace         \* ghost: what the matcher did (store positions appended, phases
                  \* run, extractOne's score, positions matched through counters)

vars == <<aec_file, pgi_file, aec_data, pgi_data, log, pc, hospital, raw, q,
          results, suggestion, trace>>

----------------------------------------------------------------------------
(* Python str primitives *)

None == <<"None">>

LOWERCASE == <<"a","b","c","d","e","f","g","h","i","j","k","l","m",
               "n","o","p","q","r","s","t","u","v","w","x","y","z">>
UPPERCASE == <<"A","B","C","D","E","F","G","H","I","J","K","L","M",
               "N","O","P","Q","R","S","T","U","V","W","X","Y","Z">>
DIGITCHARS == <<"0","1","2","3","4","5","6","7","8","9">>

Range(s) == {s[i] : i \in DOMAIN s}

IndexIn(c, s) == IF c \in Range(s) THEN CHOOSE i \in DOMAIN s : s[i] = c ELSE 0

IsLower(c) == c \in Range(LOWERCASE)
IsUpper(c) == c \in Range(UPPERCASE)
IsDigit(c) == c \in Range(DIGITCHARS)
IsSpace(c) == c \in {" ", "\t", "\n"}

UpperChar(c) == IF IsLower(c) THEN UPPERCASE[IndexIn(c, LOWERCASE)] ELSE c
LowerChar(c) == IF IsUpper(c) THEN LOWERCASE[IndexIn(c, UPPERCASE)] ELSE c

\* str.upper(), str.lower()
Upper(s) == [i \in DOMAIN s |-> UpperChar(s[i])]
Lower(s) == [i \in DOMAIN s |-> LowerChar(s[i])]

\* s[a:b] for 1-based inclusive positions a..b
Slice(s, a, b) == IF a > b THEN <<>> ELSE SubSeq(s, a, b)

\* str.strip()
RECURSIVE LStrip(_)
LStrip(s) == IF s # <<>> /\ IsSpace(Head(s)) THEN LStrip(Tail(s)) ELSE s
RECURSIVE RStrip(_)
RStrip(s) == IF s # <<>> /\ IsSpace(s[Len(s)]) THEN RStrip(Slice(s, 1, Len(s) - 1)) ELSE s
Strip(s) == RStrip(LStrip(s))

\* s.replace(c, '') for a one-character c
Remove(s, c) == SelectSeq(s, LAMBDA x : x # c)

\* needle in hay
Contains(hay, needle) ==
    \E i \in 1..(Len(hay) - Len(needle) + 1) :
        Slice(hay, i, i + Len(needle) - 1) = needle

\* str.isdigit() on ASCII text
IsDigitStr(s) == s # <<>> /\ \A i \in DOMAIN s : IsDigit(s[i])

\* int(s) for a str of ASCII digits
RECURSIVE ParseInt(_)
ParseInt(s) ==
    IF s = <<>> THEN 0
    ELSE 10 * ParseInt(Slice(s, 1, Len(s) - 1)) + (IndexIn(s[Len(s)], DIGITCHARS) - 1)

\* s.split(sep) for a one-character sep
RECURSIVE Split(_, _)
Split(s, sep) ==
    IF sep \notin Range(s) THEN <<s>>
    ELSE LET i == CHOOSE k \in DOMAIN s : s[k] = sep /\ \A j \in 1..(k - 1) : s[j] # sep
         IN  <<Slice(s, 1, i - 1)>> \o Split(Slice(s, i + 1, Len(s)), sep)

\* [int(t) for t in re.findall(r'\d+', s)]: the maximal digit runs, left to right
RECURSIVE FindAllInts(_)
FindAllInts(s) ==
    IF \A i \in DOMAIN s : ~IsDigit(s[i]) THEN <<>>
    ELSE LET a == CHOOSE k \in DOMAIN s : IsDigit(s[k]) /\ \A j \in 1..(k - 1) : ~IsDigit(s[j])
             b == CHOOSE k \in a..Len(s) :
                      /\ \A j \in a..k : IsDigit(s[j])
                      /\ (k = Len(s) \/ ~IsDigit(s[k + 1]))
         IN  <<ParseInt(Slice(s, a, b))>> \o FindAllInts(Slice(s, b + 1, Len(s)))

\* any(char.isdigit() for char in s)
HasDigit(s) == \E i \in DOMAIN s : IsDigit(s[i])

\* the word characters of the re module's \b (ASCII text)
IsWordChar(c) == IsLower(c) \/ IsUpper(c) \/ IsDigit(c) \/ c = "_"

\* \b at the gap after position p of text (p = 0: before the first character)
WordBoundary(text, p) ==
    LET before == p >= 1 /\ IsWordChar(text[p])
        after  == p < Len(text) /\ IsWordChar(text[p + 1])
    IN  before # after

\* re.search(r'\b' + re.escape(word) + r'\b', text)
WholeWordSearch(word, text) ==
    \E i \in 1..(Len(text) - Len(word) + 1) :
        /\ Slice(text, i, i + Len(word) - 1) = word
        /\ WordBoundary(text, i - 1)
        /\ WordBoundary(text, i + Len(word) - 1)

----------------------------------------------------------------------------
(* sanitize_query *)

MAX_QUERY_LEN == 100

\* the characters the negated class of the re.sub pattern lets through
SanitizeKeeps(c) ==
    \/ IsLower(c) \/ IsUpper(c) \/ IsDigit(c)
    \/ IsSpace(c)
    \/ c \in {"-", ".", ",", "&", ":", ";", "'", "\"", "(", ")", "/"}

\* re.sub(pattern, '', str(q))
SanitizeSub(s) == SelectSeq(s, SanitizeKeeps)

\* a sanitizer that forgets the slice
SanitizeNoCut(s) == s

\* the slice [:100]
SanitizeCut(s) == Slice(s, 1, IF Len(s) < MAX_QUERY_LEN THEN Len(s) ELSE MAX_QUERY_LEN)

sanitize_query(r) ==
    IF r = None \/ r = <<>> THEN <<>> ELSE SanitizeCut(SanitizeSub(r))

----------------------------------------------------------------------------
(* The CSV files and csv.DictReader.                                       *)
(* A file is [exists, readable, header, lines]; a line is [cells, err]:    *)
(* err says that reading the line raises (csv.Error, UnicodeDecodeError).  *)

AEC_COLUMNS == <<"Floor", "Block/Area", "Room/Counter No.", "Operating Days",
                 "Department/Service", "Notes">>

PGI_COLUMNS == <<"Floor", "Room_Numbers", "Building", "Operating_Days", "Department",
                 "Special_Timings", "Additional_Info", "OPD_Type", "Doctors", "Counters">>

\* the dict DictReader yields for a line: a cell the line is too short for is
\* None (restval), a column the header lacks is no key of the dict
DictRow(header, cells) ==
    [col \in Range(header) |->
        LET i == IndexIn(col, header)
        IN  IF i <= Len(cells) THEN cells[i] ELSE None]

\* row.get(key, "")
RowGet(row, key) == IF key \in DOMAIN row THEN row[key] ELSE <<>>

----------------------------------------------------------------------------
(* load_aec_data *)

\* the dict literal of lines 40-47; row[key] raises KeyError for a missing key
AecRowRaises(row) == \E i \in DOMAIN AEC_COLUMNS : AEC_COLUMNS[i] \notin DOMAIN row

AecRecord(row) ==
    [floor           |-> row["Floor"],
     block_area      |-> row["Block/Area"],
     room_counter_no |-> row["Room/Counter No."],
     operating_days  |-> row["Operating Days"],
     department      |-> row["Department/Service"],
     notes           |-> row["Notes"]]

\* the for loop of lines 39-47 over the lines still to read, acc the store so far
RECURSIVE AecReadRows(_, _, _)
AecReadRows(header, lines, acc) ==
    IF lines = <<>> THEN [data |-> acc, raised |-> FALSE]
    ELSE LET ln == Head(lines) IN
         IF ln.err THEN [data |-> acc, raised |-> TRUE]
         ELSE IF ln.cells = <<>> THEN AecReadRows(header, Tail(lines), acc)
         ELSE LET row == DictRow(header, ln.cells) IN
              IF AecRowRaises(row) THEN [data |-> acc, raised |-> TRUE]
              ELSE AecReadRows(header, Tail(lines), Append(acc, AecRecord(row)))

\* the whole loader: the store and the log lines it leaves; the except clause
\* of lines 49-50 logs and leaves the store as the loop left it
load_aec_data(file) ==
    IF ~file.exists THEN [data |-> <<>>, logged |-> <<"error: AEC data file not found">>]
    ELSE IF ~file.readable
         THEN [data |-> <<>>, logged |-> <<"error: Failed to load AEC data">>]
    ELSE LET r == AecReadRows(file.header, file.lines, <<>>) IN
         IF r.raised
         THEN [data |-> r.data, logged |-> <<"error: Failed to load AEC data">>]
         ELSE [data |-> r.data, logged |-> <<"info: Loaded AEC records">>]

----------------------------------------------------------------------------
(* load_pgi_data *)

NoLevel == -1

FLOOR_MAP ==
    [s \in {<<"G","R","O","U","N","D"," ","F","L","O","O","R">>, <<"G","F">>, <<"G">>} |-> 0] @@
    [s \in {<<"F","I","R","S","T"," ","F","L","O","O","R">>, <<"1","S","T">>, <<"1">>} |-> 1] @@
    [s \in {<<"S","E","C","O","N","D"," ","F","L","O","O","R">>, <<"2","N","D">>, <<"2">>} |-> 2] @@
    [s \in {<<"T","H","I","R","D"," ","F","L","O","O","R">>, <<"3","R","D">>, <<"3">>} |-> 3] @@
    [s \in {<<"F","O","U","R","T","H"," ","F","L","O","O","R">>, <<"4","T","H">>, <<"4">>} |-> 4] @@
    [s \in {<<"F","I","F","T","H"," ","F","L","O","O","R">>, <<"5","T","H">>, <<"5">>} |-> 5] @@
    [s \in {<<"L","E","V","E","L"," ","I","I">>} |-> 2]

\* FLOOR_MAP.get(floor_str)
FloorLevel(floor_str) ==
    IF floor_str \in DOMAIN FLOOR_MAP THEN FLOOR_MAP[floor_str] ELSE NoLevel

\* str(x)
PyStr(x) == IF x = None THEN <<"N","o","n","e">> ELSE x

\* row.get(key, "").strip() raises AttributeError when the cell is None
PgiRowRaises(row) ==
    \E i \in DOMAIN PGI_COLUMNS :
        /\ PGI_COLUMNS[i] # "Floor"
        /\ RowGet(row, PGI_COLUMNS[i]) = None

PgiRecord(row) ==
    LET floor_str == Upper(Strip(PyStr(RowGet(row, "Floor")))) IN
    [level               |-> FloorLevel(floor_str),
     original_floor_text |-> floor_str,
     room_no             |-> Strip(RowGet(row, "Room_Numbers")),
     block               |-> Strip(RowGet(row, "Building")),
     days                |-> Strip(RowGet(row, "Operating_Days")),
     building            |-> Strip(RowGet(row, "Building")),
     department          |-> Strip(RowGet(row, "Department")),
     notes               |-> Strip(RowGet(row, "Special_Timings")) \o <<" ", "|", " ">>
                                 \o Strip(RowGet(row, "Additional_Info")),
     opd_type            |-> Lower(Strip(RowGet(row, "OPD_Type"))),
     doctors             |-> Strip(RowGet(row, "Doctors")),
     counters            |-> Strip(RowGet(row, "Counters"))]

\* the for loop of lines 77-91
RECURSIVE PgiReadRows(_, _, _)
PgiReadRows(header, lines, acc) ==
    IF lines = <<>> THEN [data |-> acc, raised |-> FALSE]
    ELSE LET ln == Head(lines) IN
         IF ln.err THEN [data |-> acc, raised |-> TRUE]
         ELSE IF ln.cells = <<>> THEN PgiReadRows(header, Tail(lines), acc)
         ELSE LET row == DictRow(header, ln.cells) IN
              IF PgiRowRaises(row) THEN [data |-> acc, raised |-> TRUE]
              ELSE PgiReadRows(header, Tail(lines), Append(acc, PgiRecord(row)))

\* as load_aec_data; the except clause is lines 93-94
load_pgi_data(file) ==
    IF ~file.exists THEN [data |-> <<>>, logged |-> <<"error: PGI data file not found">>]
    ELSE IF ~file.readable
         THEN [data |-> <<>>, logged |-> <<"error: Failed to load PGI data">>]
    ELSE LET r == PgiReadRows(file.header, file.lines, <<>>) IN
         IF r.raised
         THEN [data |-> r.data, logged |-> <<"error: Failed to load PGI data">>]
         ELSE [data |-> r.data, logged |-> <<"info: Loaded PGI records">>]

----------------------------------------------------------------------------
(* Shared by the matchers *)

\* the truth value of a field: None and '' are false
Truthy(s) == s # None /\ s # <<>>

\* one "for entry in data" loop is Flatten([i \in DOMAIN data |-> appended(i)]),
\* appended(i) being the store positions the loop body appends to results for
\* data[i]
RECURSIVE Flatten(_)
Flatten(ss) == IF ss = <<>> THEN <<>> ELSE Head(ss) \o Flatten(Tail(ss))

\* "if cond: results.append(entry)"
AppendIf(cond, i) == IF cond THEN <<i>> ELSE <<>>

\* process.extractOne(query, choices, scorer=fuzz.token_set_ratio) is library code:
\* its result is None for no choices and otherwise some choice with some score
\* from 0 to 100; the scores below stand for the ranges the two cutoffs separate
SCORES == {65, 70, 71}

NoMatch == [found |-> FALSE, choice |-> None, score |-> 0]

ExtractOne(choices) ==
    IF choices = {} THEN {NoMatch}
    ELSE [found : {TRUE}, choice : choices, score : SCORES]

----------------------------------------------------------------------------
(* search_aec *)

AEC_FUZZY_CUTOFF == 70

\* a guard that only looks at the store
AecOnlyEmptyStore(query, data) == data = <<>>

\* line 106
AecNothingToSearch(query, data) == query = <<>> \/ data = <<>>

\* an exact test that compares the fields as written only
AecExactAsWritten(entry, query) ==
    \/ Upper(entry.department) = query
    \/ (Truthy(entry.notes) /\ Upper(entry.notes) = query)

\* lines 111-114
AecExact(entry, query) ==
    LET dept  == Upper(entry.department)
        notes == IF Truthy(entry.notes) THEN Upper(entry.notes) ELSE <<>>
    IN  \/ dept = query
        \/ Remove(dept, ".") = Remove(query, ".")
        \/ notes = query
        \/ Remove(notes, ".") = Remove(query, ".")

\* a whole-word test that strips the periods of the query only
AecWholeWordKeepsPeriods(entry, query) ==
    LET word == Remove(query, ".") IN
    \/ WholeWordSearch(word, Upper(entry.department))
    \/ (Truthy(entry.notes) /\ WholeWordSearch(word, Upper(entry.notes)))

\* lines 120-123
AecWholeWord(entry, query) ==
    LET word == Remove(query, ".") IN
    \/ WholeWordSearch(word, Remove(Upper(entry.department), "."))
    \/ (Truthy(entry.notes) /\ WholeWordSearch(word, Remove(Upper(entry.notes), ".")))

\* lines 130-131
AecSubstring(entry, query) ==
    \/ Contains(Upper(entry.department), query)
    \/ (Truthy(entry.notes) /\ Contains(Upper(entry.notes), query))

\* lines 137-138
AecSearchable(data) ==
    {data[i].department : i \in DOMAIN data}
        \cup {data[i].notes : i \in {j \in DOMAIN data : Truthy(data[j].notes)}}

\* lines 139-141
AecSuggestion(match) ==
    IF match.found /\ match.score > AEC_FUZZY_CUTOFF THEN match.choice ELSE None

\* the cascade of lines 109-142 on the trimmed, upper-cased query
AecCascade(query, data, match) ==
    LET exact == Flatten([i \in DOMAIN data |-> AppendIf(AecExact(data[i], query), i)])
        word  == Flatten([i \in DOMAIN data |-> AppendIf(AecWholeWord(data[i], query), i)])
        sub   == Flatten([i \in DOMAIN data |-> AppendIf(AecSubstring(data[i], query), i)])
    IN  IF exact # <<>>
        THEN [hits |-> exact, suggestion |-> None, phases |-> <<"exact">>,
              fuzzy |-> NoMatch, via_counters |-> {}]
        ELSE IF word # <<>>
        THEN [hits |-> word, suggestion |-> None, phases |-> <<"exact", "word">>,
              fuzzy |-> NoMatch, via_counters |-> {}]
        ELSE IF sub # <<>>
        THEN [hits |-> sub, suggestion |-> None,
              phases |-> <<"exact", "word", "substring">>,
              fuzzy |-> NoMatch, via_counters |-> {}]
        ELSE [hits |-> <<>>, suggestion |-> AecSuggestion(match),
              phases |-> <<"exact", "word", "substring", "fuzzy">>,
              fuzzy |-> match, via_counters |-> {}]

\* the result carries, beside the suggestion, the store positions appended to
\* results (hits), the phases run, the extractOne result consulted (fuzzy)
search_aec(query0, data, match) ==
    LET query == Upper(Strip(query0)) IN
    IF AecNothingToSearch(query, data)
    THEN [hits |-> <<>>, suggestion |-> None, phases |-> <<>>,
          fuzzy |-> NoMatch, via_counters |-> {}]
    ELSE AecCascade(query, data, match)

----------------------------------------------------------------------------
(* search_pgi *)

PGI_FUZZY_CUTOFF == 65
PGI_FUZZY_MIN_LEN == 2

\* line 146
PgiNothingToSearch(query, data) == query = <<>> \/ data = <<>>

\* lines 164-173 for one comma-separated part: the integers it adds to
\* counter_parts (the list is only ever tested for membership)
CounterPart(part0) ==
    LET part == Strip(part0) IN
    IF "-" \in Range(part)
    THEN LET pieces == Split(part, "-") IN
         IF Len(pieces) # 2 THEN {}      \* the unpacking raises ValueError: continue
         ELSE IF IsDigitStr(pieces[1]) /\ IsDigitStr(pieces[2])
              THEN ParseInt(pieces[1])..ParseInt(pieces[2])
              ELSE {}
    ELSE IF IsDigitStr(Remove(part, "A"))
         THEN {ParseInt(Remove(part, "A"))}
         ELSE {}

\* lines 162-173
CounterParts(counters) ==
    UNION {CounterPart(p) : p \in Range(Split(counters, ","))}

AnyIn(query_numbers, numbers) == \E k \in DOMAIN query_numbers : query_numbers[k] \in numbers

\* lines 160-175
PgiCounterHit(entry, query_numbers) ==
    Truthy(entry.counters) /\ AnyIn(query_numbers, CounterParts(entry.counters))

\* lines 180-183
PgiRoomHit(entry, query_numbers) ==
    Truthy(entry.room_no) /\ AnyIn(query_numbers, Range(FindAllInts(entry.room_no)))

\* lines 188-189
PgiDeptHit(entry, query_numbers) ==
    AnyIn(query_numbers, Range(FindAllInts(entry.department)))

\* a loop body without the two continue statements
NumericEntryNoContinue(entry, i, query_numbers) ==
    AppendIf(PgiCounterHit(entry, query_numbers), i)
        \o AppendIf(PgiRoomHit(entry, query_numbers), i)
        \o AppendIf(PgiDeptHit(entry, query_numbers), i)

\* the body of the loop of lines 158-190 for the entry at position i
NumericEntry(entry, i, query_numbers) ==
    IF PgiCounterHit(entry, query_numbers) THEN <<i>>           \* append, continue
    ELSE IF PgiRoomHit(entry, query_numbers) THEN <<i>>         \* append, continue
    ELSE AppendIf(PgiDeptHit(entry, query_numbers), i)

\* lines 155-190
NumericPhase(query, data) ==
    IF HasDigit(query)
    THEN Flatten([i \in DOMAIN data |-> NumericEntry(data[i], i, FindAllInts(query))])
    ELSE <<>>

\* lines 195-198
DepartmentPhase(query_lower, data) ==
    Flatten([i \in DOMAIN data |-> AppendIf(Contains(Lower(data[i].department), query_lower), i)])

\* lines 202-208 for the entry at position i: the first field that holds the
\* query appends the entry and breaks
PartialEntry(entry, i, query_lower) ==
    AppendIf(\/ Contains(Lower(entry.department), query_lower)
             \/ Contains(Lower(entry.doctors), query_lower)
             \/ Contains(Lower(entry.notes), query_lower)
             \/ Contains(Lower(entry.block), query_lower)
             \/ Contains(Lower(entry.building), query_lower), i)

PartialPhase(query_lower, data) ==
    Flatten([i \in DOMAIN data |-> PartialEntry(data[i], i, query_lower)])

\* line 212
PgiDepartmentNames(data) ==
    {data[i].department : i \in {j \in DOMAIN data : Truthy(data[j].department)}}

\* lines 214-215
PgiSuggestion(match) ==
    IF match.found /\ match.score > PGI_FUZZY_CUTOFF THEN match.choice ELSE <<>>

\* a text search that runs whatever the numeric phase found
TextPhaseRunsAlways(numeric) == TRUE

\* line 193: the text search runs when results is empty
TextPhaseRuns(numeric) == numeric = <<>>

\* lines 193-215
TextPhase(query, data, match, ran) ==
    LET query_lower == Lower(query)
        dept    == DepartmentPhase(query_lower, data)
        partial == PartialPhase(query_lower, data)
    IN  IF dept # <<>>
        THEN [hits |-> dept, suggestion |-> <<>>, phases |-> ran \o <<"department">>,
              fuzzy |-> NoMatch]
        ELSE IF partial # <<>>
        THEN [hits |-> partial, suggestion |-> <<>>,
              phases |-> ran \o <<"department", "partial">>, fuzzy |-> NoMatch]
        ELSE IF Len(query) > PGI_FUZZY_MIN_LEN
        THEN [hits |-> <<>>, suggestion |-> PgiSuggestion(match),
              phases |-> ran \o <<"department", "partial", "fuzzy">>, fuzzy |-> match]
        ELSE [hits |-> <<>>, suggestion |-> <<>>,
              phases |-> ran \o <<"department", "partial">>, fuzzy |-> NoMatch]

\* via_counters: the positions whose entry was appended by the counters test
search_pgi(query0, data, match) ==
    IF PgiNothingToSearch(query0, data)
    THEN [hits |-> <<>>, suggestion |-> <<>>, phases |-> <<>>,
          fuzzy |-> NoMatch, via_counters |-> {}]
    ELSE LET query   == Strip(query0)
             numeric == NumericPhase(query, data)
             ran     == IF HasDigit(query) THEN <<"numeric">> ELSE <<>>
             via     == IF HasDigit(query)
                        THEN {i \in DOMAIN data : PgiCounterHit(data[i], FindAllInts(query))}
                        ELSE {}
         IN  IF TextPhaseRuns(numeric)
             THEN [via_counters |-> via] @@ TextPhase(query, data, match, ran)
             ELSE [hits |-> numeric, suggestion |-> <<>>, phases |-> ran,
                   fuzzy |-> NoMatch, via_counters |-> via]

----------------------------------------------------------------------------
(* The inputs: the two CSV files the process starts on, and the requests. *)

MaxLines == 2        \* lines of a CSV file built from the sample lines
MaxCounterLen == 3   \* length of an enumerated Counters cell
MaxRepeat == 101     \* length of the long raw queries

Line(cells) == [cells |-> cells, err |-> FALSE]

\* a line whose reading raises
ErrLine == [cells |-> <<>>, err |-> TRUE]

\* a blank line, which DictReader skips
BlankLine == Line(<<>>)

\* all sequences over S of length 0..n
SeqsUpTo(S, n) == UNION {[1..k -> S] : k \in 0..n}

AecLine(department, notes) ==
    Line(<<<<"1">>, <<"A">>, <<"1","2">>, <<"M","o","n">>, department, notes>>)

\* an AEC line one cell short: its Notes is None
AecShortLine ==
    Line(<<<<"1">>, <<"A">>, <<"1","2">>, <<"M","o","n">>, <<"E","a","r">>>>)

AecSampleLines ==
    {AecLine(<<"E",".","N",".","T","."," ","D","e","p","a","r","t","m","e","n","t">>, <<>>),
     AecLine(<<"E","N","T"," ">>, <<"M","o","n",".">>),
     AecLine(<<"E","y","e">>, <<"E","N","T">>),
     AecShortLine, ErrLine, BlankLine}

AecFile(header, lines) ==
    [exists |-> TRUE, readable |-> TRUE, header |-> header, lines |-> lines]

MissingFile == [exists |-> FALSE, readable |-> FALSE, header |-> <<>>, lines |-> <<>>]
UnreadableFile == [exists |-> TRUE, readable |-> FALSE, header |-> <<>>, lines |-> <<>>]
EmptyFile == [exists |-> TRUE, readable |-> TRUE, header |-> <<>>, lines |-> <<>>]

AecFiles ==
    {MissingFile, UnreadableFile, EmptyFile}
        \cup {AecFile(AEC_COLUMNS, ls) : ls \in SeqsUpTo(AecSampleLines, MaxLines)}
        \cup {AecFile(SubSeq(AEC_COLUMNS, 1, 5), <<AecShortLine>>)}

PgiSampleLines ==
    {Line(<<<<"G","r","o","u","n","d"," ","F","l","o","o","r">>,
            <<"R","o","o","m"," ","1","2">>,
            <<"N","e","w"," ","O","P","D">>,
            <<"M","o","n">>,
            <<"M","e","d","i","c","i","n","e">>,
            <<"9","-","1">>,
            <<>>,
            <<"G","e","n","e","r","a","l">>,
            <<"D","r"," ","R","a","o">>,
            <<"1","0","-","1","5",",","2","0">>>>),
     Line(<<<<" ","g","f"," ">>,
            <<"9">>,
            <<"B","l","o","c","k"," ","1","6">>,
            <<"T","u","e">>,
            <<"E","N","T"," ","W","a","r","d"," ","1","2">>,
            <<>>,
            <<"n","e","a","r"," ","2","0">>,
            <<"S","p","e","c","i","a","l">>,
            <<>>,
            <<"9","A">>>>),
     Line(<<<<"7","t","h">>,
            <<>>,
            <<>>,
            <<>>,
            <<"E","y","e"," ","C","e","n","t","r","e">>,
            <<>>,
            <<>>,
            <<>>,
            <<"D","r"," ","M","e","d","i","c","i","n","e">>,
            <<" ","7"," ",","," ","3"," ","-"," ","4",",","1","-","2","-","3">>>>),
     Line(<<<<"1">>, <<"3">>, <<"B">>, <<"W","e","d">>, <<"S","k","i","n">>, <<>>, <<>>, <<>>, <<>>>>),
     ErrLine, BlankLine}

\* a line whose Counters cell is c
CounterLine(c) ==
    Line(<<<<"1">>, <<>>, <<>>, <<>>, <<"L","a","b">>, <<>>, <<>>, <<>>, <<>>, c>>)

COUNTER_ALPHABET == {"1", "2", "A", "-"}

PgiFile(header, lines) ==
    [exists |-> TRUE, readable |-> TRUE, header |-> header, lines |-> lines]

PgiFiles ==
    {MissingFile, UnreadableFile, EmptyFile}
        \cup {PgiFile(PGI_COLUMNS, ls) : ls \in SeqsUpTo(PgiSampleLines, MaxLines)}
        \cup {PgiFile(PGI_COLUMNS, <<CounterLine(c)>>) :
                  c \in SeqsUpTo(COUNTER_ALPHABET, MaxCounterLen)}
        \* a file without the Counters column, and one without the Floor column
        \cup {PgiFile(SubSeq(PGI_COLUMNS, 1, 9), <<l>>) : l \in PgiSampleLines}
        \cup {PgiFile(Tail(PGI_COLUMNS), <<Line(Tail(l.cells))>>) :
                  l \in {m \in PgiSampleLines : Len(m.cells) = 10}}

AecDefaultFile == AecFile(AEC_COLUMNS, <<AecLine(<<"E","N","T">>, <<>>)>>)
PgiDefaultFile == PgiFile(PGI_COLUMNS, <<CounterLine(<<"9","A">>)>>)

\* the pairs of files a run starts on: one of the two varies
FilePairs ==
    {<<a, PgiDefaultFile>> : a \in AecFiles} \cup {<<AecDefaultFile, p>> : p \in PgiFiles}

RECURSIVE Repeat(_, _)
Repeat(c, n) == IF n = 0 THEN <<>> ELSE Append(Repeat(c, n - 1), c)

\* request.form.get / request.args.get: None, or the text sent
RawQueries ==
    {None,
     <<>>,
     <<" ">>,
     <<" ","\t">>,
     <<"E","N","T">>,
     <<"e","n","t">>,
     <<"E",".","N",".","T",".">>,
     <<" ","E","N","T"," ">>,
     <<"E","N","T"," ">>,
     <<".">>,
     <<"x","y","z">>,
     <<"E","_","N","<","T">>,
     <<"p","a","r","t">>,
     <<"c","o","u","n","t","e","r"," ","1","2">>,
     <<"c","o","u","n","t","e","r"," ","1","6">>,
     <<"9">>,
     <<"1","2">>,
     <<"1">>,
     <<"1","2"," ","9">>,
     <<"m","e","d","i","c","i","n","e">>,
     <<"r","a","o">>,
     <<"x","y">>,
     <<"é","#">>}
        \cup {Repeat("x", n) : n \in {MAX_QUERY_LEN - 1, MAX_QUERY_LEN, MaxRepeat}}
        \cup {<<"#", "a", " ">> \o Repeat(".", MaxRepeat)}

----------------------------------------------------------------------------
(* The program *)

EmptyTrace == [hits |-> <<>>, phases |-> <<>>, score |-> 0, via_counters |-> {}]

Init ==
    /\ \E f \in FilePairs : aec_file = f[1] /\ pgi_file = f[2]
    /\ aec_data = <<>>
    /\ pgi_data = <<>>
    /\ log = <<>>
    /\ pc = "boot"
    /\ hospital = "none"
    /\ raw = None
    /\ q = <<>>
    /\ results = <<>>
    /\ suggestion = None
    /\ trace = EmptyTrace

\* lines 275-280, run when the module is imported
initialize_app ==
    /\ pc = "boot"
    /\ LET a == load_aec_data(aec_file)
           p == load_pgi_data(pgi_file)
       IN  /\ aec_data' = a.data
           /\ pgi_data' = p.data
           /\ log' = log \o a.logged \o p.logged \o <<"info: Data loaded successfully">>
    /\ pc' = "serving"
    /\ UNCHANGED <<aec_file, pgi_file, hospital, raw, q, results, suggestion, trace>>

\* the records at the positions appended to results
Records(data, hits) == [k \in DOMAIN hits |-> data[hits[k]]]

\* the extractOne results a search can see: the library is called only in the
\* fuzzy phase, so a search that ends before it sees none
Matches(out, choices) ==
    IF out.phases # <<>> /\ out.phases[Len(out.phases)] = "fuzzy"
    THEN ExtractOne(choices)
    ELSE {NoMatch}

Respond(r, data, out) ==
    /\ raw' = r
    /\ q' = sanitize_query(r)
    /\ results' = Records(data, out.hits)
    /\ suggestion' = out.suggestion
    /\ trace' = [hits |-> out.hits, phases |-> out.phases, score |-> out.fuzzy.score,
                 via_counters |-> out.via_counters]
    /\ pc' = "responded"

\* lines 226-244: the route /aec_index.html
aec_search ==
    /\ pc = "serving"
    /\ \E r \in RawQueries :
        \E probe \in {search_aec(sanitize_query(r), aec_data, NoMatch)} :
        \E match \in Matches(probe, AecSearchable(aec_data)) :
        \E out \in {search_aec(sanitize_query(r), aec_data, match)} :
            Respond(r, aec_data, out)
    /\ hospital' = "aec"
    /\ UNCHANGED <<aec_file, pgi_file, aec_data, pgi_data, log>>

\* lines 246-266: the route /index.html
pgi_search ==
    /\ pc = "serving"
    /\ \E r \in RawQueries :
        \E probe \in {search_pgi(sanitize_query(r), pgi_data, NoMatch)} :
        \E match \in Matches(probe, PgiDepartmentNames(pgi_data)) :
        \E out \in {search_pgi(sanitize_query(r), pgi_data, match)} :
            Respond(r, pgi_data, out)
    /\ hospital' = "pgi"
    /\ UNCHANGED <<aec_file, pgi_file, aec_data, pgi_data, log>>

\* the response is sent and the request is over: the next one starts afresh
next_request ==
    /\ pc = "responded"
    /\ pc' = "serving"
    /\ hospital' = "none"
    /\ raw' = None
    /\ q' = <<>>
    /\ results' = <<>>
    /\ suggestion' = None
    /\ trace' = EmptyTrace
    /\ UNCHANGED <<aec_file, pgi_file, aec_data, pgi_data, log>>

Next == initialize_app \/ aec_search \/ pgi_search \/ next_request

Spec == Init /\ [][Next]_vars

----------------------------------------------------------------------------
(* Properties *)

Responded(h) == pc = "responded" /\ hospital = h

\* the store the last request searched
Store == IF hospital = "aec" THEN aec_data ELSE pgi_data

S_ENT == <<"E","N","T">>
S_ENT_DEPARTMENT == <<"E",".","N",".","T","."," ","D","e","p","a","r","t","m","e","n","t">>

\* --- C1 ---
\* the set of integers the specification's parse gives for a counters string:
\* a part is an integer, an integer followed by "A", or two integers joined by
\* a hyphen; any other part gives nothing
RECURSIVE StripTrailingA(_)
StripTrailingA(part) ==
    IF Len(part) >= 2 /\ part[Len(part)] = "A"
    THEN StripTrailingA(Slice(part, 1, Len(part) - 1))
    ELSE part

SpecCounterPart(part0) ==
    LET part   == Strip(part0)
        pieces == Split(part, "-")
    IN  IF IsDigitStr(StripTrailingA(part)) THEN {ParseInt(StripTrailingA(part))}
        ELSE IF Len(pieces) = 2 /\ IsDigitStr(pieces[1]) /\ IsDigitStr(pieces[2])
             THEN ParseInt(pieces[1])..ParseInt(pieces[2])
             ELSE {}

SpecCounterSet(counters) ==
    UNION {SpecCounterPart(p) : p \in Range(Split(counters, ","))}

\* C1: in the numeric phase of search_pgi a record with a non-empty counters
\* string is matched through its counters exactly when some integer of the
\* query is in the set the specification's parse of counters gives.
C1_CountersMatchedAsSpecified ==
    (Responded("pgi") /\ "numeric" \in Range(trace.phases)) =>
        \A i \in DOMAIN pgi_data :
            Truthy(pgi_data[i].counters) =>
                ((i \in trace.via_counters) <=>
                    AnyIn(FindAllInts(q), SpecCounterSet(pgi_data[i].counters)))

\* --- C2 ---
\* C2: when the numeric phase of search_pgi yields a match, the text phase is
\* not run, the matches returned are the numeric matches and the suggestion
\* is the empty string.
C2_NumericMatchSkipsText ==
    (Responded("pgi") /\ q # <<>> /\ NumericPhase(Strip(q), pgi_data) # <<>>) =>
        /\ trace.phases = <<"numeric">>
        /\ results = Records(pgi_data, NumericPhase(Strip(q), pgi_data))
        /\ suggestion = <<>>

C2_Witness ==
    /\ Responded("pgi")
    /\ trace.phases = <<"numeric">>
    /\ Len(results) = 2

\* --- C3 ---
\* a equals b case-insensitively, periods ignored on both sides
EqualsIgnoringCaseAndPeriods(a, b) ==
    a # None /\ Remove(Upper(a), ".") = Remove(Upper(b), ".")

\* the positions whose department or notes equals the query text
EqualTo(query) ==
    {i \in DOMAIN aec_data :
        \/ EqualsIgnoringCaseAndPeriods(aec_data[i].department, query)
        \/ EqualsIgnoringCaseAndPeriods(aec_data[i].notes, query)}

HasEntDepartment == \E i \in DOMAIN aec_data : aec_data[i].department = S_ENT_DEPARTMENT

\* C4 as stated: the query "ENT" on a store with the department
\* "E.N.T. Department", no other record giving an exact, whole-word or substring
\* hit, reaches the fuzzy phase and returns no matches.
C4_AsStated ==
    (/\ Responded("aec")
     /\ q = S_ENT
     /\ HasEntDepartment
     /\ \A j \in DOMAIN aec_data :
            aec_data[j].department # S_ENT_DEPARTMENT =>
                /\ ~AecExact(aec_data[j], S_ENT)
                /\ ~AecWholeWord(aec_data[j], S_ENT)
                /\ ~AecSubstring(aec_data[j], S_ENT)) =>
        /\ results = <<>>
        /\ "fuzzy" \in Range(trace.phases)
        /\ (suggestion # None => trace.score > 70)

\* C4 amended: the query "ENT" on a store with the department
\* "E.N.T. Department" and no exact hit ends in the whole-word phase, which
\* returns that record and no suggestion; and whenever the fuzzy phase is
\* reached, no matches are returned and the suggestion is the best candidate
\* if its score exceeds 70 and None otherwise.
C4_EntIsAWholeWordHit ==
    Responded("aec") =>
        /\ (q = S_ENT /\ HasEntDepartment /\ EqualTo(S_ENT) = {}) =>
            /\ trace.phases = <<"exact", "word">>
            /\ \A i \in DOMAIN aec_data :
                   aec_data[i].department = S_ENT_DEPARTMENT => i \in Range(trace.hits)
            /\ suggestion = None
        /\ "fuzzy" \in Range(trace.phases) =>
            /\ results = <<>>
            /\ trace.score > 70 => suggestion \in AecSearchable(aec_data)
            /\ trace.score <= 70 => suggestion = None

C4_Witness ==
    /\ Responded("aec")
    /\ q = S_ENT
    /\ HasEntDepartment
    /\ trace.phases = <<"exact", "word">>
    /\ Len(results) = 1

\* --- C5 ---
\* C5: an empty query or an empty store gives no matches and no suggestion:
\* search_aec returns ([], None) and search_pgi returns ([], "").
C5_NothingToSearch ==
    (pc = "responded" /\ (q = <<>> \/ Store = <<>>)) =>
        /\ results = <<>>
        /\ trace.phases = <<>>
        /\ hospital = "aec" => suggestion = None
        /\ hospital = "pgi" => suggestion = <<>>

C5_Witness ==
    /\ Responded("aec")
    /\ q = <<>>
    /\ \E i \in DOMAIN aec_data : aec_data[i].notes = <<>>

\* --- C6 ---
\* the characters the claim allows: letters, digits, whitespace, - . , & : ; ' " ( ) /
ClaimAllows(c) ==
    \/ c \in Range(LOWERCASE) \cup Range(UPPERCASE) \cup Range(DIGITCHARS)
    \/ c \in {" ", "\t", "\n"}
    \/ c \in {"-", ".", ",", "&", ":", ";", "'", "\"", "(", ")", "/"}

\* s is the first characters of t
IsPrefix(s, t) == Len(s) <= Len(t) /\ s = Slice(t, 1, Len(s))

\* C6: sanitize_query returns at most 100 characters, all of them allowed; it is
\* the input with every other character removed, in the input's order, cut to
\* 100; an absent or empty input gives the empty string.
C6_SanitizedQuery ==
    pc = "responded" =>
        /\ Len(q) <= 100
        /\ \A k \in DOMAIN q : ClaimAllows(q[k])
        /\ raw \in {None, <<>>} => q = <<>>
        /\ raw # None =>
            /\ IsPrefix(q, SelectSeq(raw, ClaimAllows))
            /\ (Len(q) < 100 => q = SelectSeq(raw, ClaimAllows))

C6_Witness ==
    /\ pc = "responded"
    /\ Len(q) = 100
    /\ Len(SelectSeq(raw, ClaimAllows)) > 100
    /\ \E k \in DOMAIN raw : ~ClaimAllows(raw[k])

\* --- C7 ---
Logged(msg) == \E k \in DOMAIN log : log[k] = msg

\* C7: a failed load leaves the store empty.
C7_FailedLoadLeavesStoreEmpty ==
    pc # "boot" =>
        /\ (Logged("error: Failed to load AEC data")
              \/ Logged("error: AEC data file not found")) => aec_data = <<>>
        /\ (Logged("error: Failed to load PGI data")
              \/ Logged("error: PGI data file not found")) => pgi_data = <<>>

\* --- C8 ---
\* the lines DictReader yields a row for
DataLines(file) == SelectSeq(file.lines, LAMBDA ln : ln.cells # <<>>)

\* the cell of column col is missing from the line
CellMissing(file, ln, col) ==
    col \notin Range(file.header) \/ IndexIn(col, file.header) > Len(ln.cells)

\* C8: in load_pgi_data a line with a missing cell is loaded, the field of the
\* missing cell being the empty string, and so is every later line.
C8_MissingCellLoadsAsEmpty ==
    (/\ pc # "boot"
     /\ pgi_file.exists /\ pgi_file.readable
     /\ \A k \in DOMAIN pgi_file.lines : ~pgi_file.lines[k].err) =>
        /\ Len(pgi_data) = Len(DataLines(pgi_file))
        /\ \A k \in DOMAIN pgi_data :
            /\ CellMissing(pgi_file, DataLines(pgi_file)[k], "Counters") =>
                   pgi_data[k].counters = <<>>
            /\ CellMissing(pgi_file, DataLines(pgi_file)[k], "Doctors") =>
                   pgi_data[k].doctors = <<>>
            /\ CellMissing(pgi_file, DataLines(pgi_file)[k], "Floor") =>
                   pgi_data[k].original_floor_text = <<>>

\* --- C9 ---
\* C9: the matches returned are a subsequence of the store: records of the
\* store, each position at most once, in store order.
C9_MatchesAreASubsequence ==
    pc = "responded" =>
        /\ Len(results) = Len(trace.hits)
        /\ \A k \in DOMAIN trace.hits :
            /\ trace.hits[k] \in DOMAIN Store
            /\ results[k] = Store[trace.hits[k]]
        /\ \A k \in 1..(Len(trace.hits) - 1) : trace.hits[k] < trace.hits[k + 1]

C9_Witness ==
    /\ Responded("pgi")
    /\ Len(results) = 2
    /\ \E k \in DOMAIN trace.hits :
        /\ PgiCounterHit(pgi_data[trace.hits[k]], FindAllInts(q))
        /\ PgiRoomHit(pgi_data[trace.hits[k]], FindAllInts(q))

\* --- C10 ---
\* C10: a query of whitespace only is treated like the empty query on a
\* non-empty store: no matches, no suggestion.
C10_WhitespaceQueryIsEmpty ==
    (pc = "responded" /\ q # <<>> /\ Strip(q) = <<>> /\ Store # <<>>) =>
        /\ results = <<>>
        /\ hospital = "aec" => suggestion = None
        /\ hospital = "pgi" => suggestion = <<>>

====
